---- MODULE Spec2Model ----
(***************************************************************************)
(* Model of python/training_pipeline.py: the patch geometry helpers        *)
(* (preprocess_image, resize_mask), the training op train_classifier_op    *)
(* and the polling sensor pocketbase_sensor.                               *)
(*                                                                         *)
(* Three specifications share the module:                                  *)
(*   Spec        one run of train_classifier_op over a batch of images     *)
(*   SpecGeom    the two geometry helpers applied to drawn (w, h, S, P)    *)
(*   SpecSensor  the sensor, the run-key de-duplication of the scheduler   *)
(*               and the runs it launches, over several records            *)
(*                                                                         *)
(* Modelling conventions.                                                  *)
(*  - A call of a collaborator (PocketBase, requests, onnxruntime,         *)
(*    skl2onnx) either returns having had its effect, or raises having had *)
(*    none; which of the two is a nondeterministic choice of the action.   *)
(*  - A resize to a target with a side of 0 pixels raises ValueError; the  *)
(*    helpers then return no plane.                                        *)
(*  - A resized mask is 8-bit; a patch of it is represented by the sum of  *)
(*    its PATCH_SIZE*PATCH_SIZE pixel values (0..255 each), so the soft    *)
(*    label of the patch is  sum / (255 * PATCH_SIZE^2)  and comparisons   *)
(*    with 0.01, 0.99 and 0 are made exactly on integers.                  *)
(*  - int(a / b) on the non-negative integers drawn here is a \div b       *)
(*    (the float quotient is far from the next integer at these sizes).    *)
(***************************************************************************)
EXTENDS Integers, Sequences, FiniteSets, TLC

\* ---------------------------------------------------------------- constants
PATCH_SIZE == 16
IMAGE_SIZE == 768

\* ------------------------------------------------------------------- bounds
MaxImages == 3      \* images in record.images
MaxDim == 4         \* SpecGeom: w, h in 1..MaxDim
MaxTarget == 6      \* SpecGeom: image_size in 1..MaxTarget
MaxStride == 3      \* SpecGeom: patch_size in 1..MaxStride
MaxPolls == 3       \* SpecSensor: sensor ticks
MaxRecords == 2     \* SpecSensor: records in the datasets collection

\* ---------------------------------------------------------------- variables
VARIABLES
    \* train_classifier_op (Spec)
    pc,              \* position of the run
    images,          \* record.images: the batch, as decoded file contents
    status,          \* record.status in PocketBase
    classifier_file, \* record.classifier_file in PocketBase
    writes,          \* the status updates this run has sent, in order
    i,               \* index of the next image of the for loop
    xs, ys,          \* the two lists of per-image arrays (lines 94-95)
    xs_cat, ys_cat,  \* xs, ys after np.concatenate (lines 121-122)
    xs_clean, ys_clean, \* the filtered tables (lines 126-127)
    fit_y,           \* the class vector passed to clf.fit
    fit_calls,       \* number of calls of clf.fit
    embed_calls,     \* number of calls of ort_sess.run
    clf,             \* the classifier: "none" | "fitted"
    onx,             \* the exported bytes: "none" | "bytes"
    err,             \* the exception in flight or raised: "none" or its name
    raised,          \* the op has raised to its caller
    \* geometry helpers (SpecGeom)
    g_in,            \* the drawn input [w, h, S, P]
    g_img,           \* <<>>, or the result of preprocess_image: plane or exception
    g_mask,          \* <<>>, or the result of resize_mask: plane or exception
    \* sensor (SpecSensor)
    db,              \* record id -> status, the datasets collection
    run_keys,        \* run keys the scheduler has already launched
    runs,            \* the launched runs: sequence of [run_key, record_id, at]
    polls,           \* sensor ticks so far
    sensor_pc,       \* "idle", or "yielded": requests await the scheduler
    last_requests,   \* the RunRequests yielded by the last tick
    requested        \* record id -> number of RunRequests yielded for it

pipeVars == <<pc, images, status, classifier_file, writes, i, xs, ys, xs_cat,
              ys_cat, xs_clean, ys_clean, fit_y, fit_calls, embed_calls, clf,
              onx, err, raised>>
geomVars == <<g_in, g_img, g_mask>>
sensorVars == <<db, run_keys, runs, polls, sensor_pc, last_requests,
               requested>>
vars == <<pipeVars, geomVars, sensorVars>>

\* ------------------------------------------------------------ patch geometry
\* int(a / b) for b > 0: truncation toward zero
TruncDiv(a, b) == IF a >= 0 THEN a \div b ELSE -((-a) \div b)

\* preprocess_image, lines 36-40: target_size = (height, width) in pixels
preprocess_target(w, h, image_size, patch_size) ==
    LET h_patches == image_size \div patch_size
        w_patches == TruncDiv(w * image_size, h * patch_size)
    IN  <<h_patches * patch_size, w_patches * patch_size>>

\* the result of a resize call: the resized plane, or the exception raised
\* when a side of the requested size is not positive
resize(width, height) ==
    IF width <= 0 \/ height <= 0
    THEN [raises |-> "ValueError"]
    ELSE [height |-> height, width |-> width]

\* mutant of preprocess_image: target_size handed to PIL as it is
preprocess_image_unswapped(w, h, image_size, patch_size) ==
    LET target_size == preprocess_target(w, h, image_size, patch_size)
        pil_size == <<target_size[1], target_size[2]>>
    IN  resize(pil_size[1], pil_size[2])

\* line 40: img_pil.resize((target_size[1], target_size[0])), PIL takes
\* (width, height); the resized plane is [height, width]
preprocess_image(w, h, image_size, patch_size) ==
    LET target_size == preprocess_target(w, h, image_size, patch_size)
        pil_size == <<target_size[2], target_size[1]>>
    IN  resize(pil_size[1], pil_size[2])

\* mutant of resize_mask_target: w_patches rounded to nearest, not truncated
resize_mask_target_rounded(w, h, image_size, patch_size) ==
    LET h_patches == TruncDiv(image_size, patch_size)
        w_patches == (2 * w * image_size + h * patch_size) \div (2 * h * patch_size)
    IN  <<h_patches * patch_size, w_patches * patch_size>>

\* resize_mask, lines 48-51: target_size = (height, width) in pixels
resize_mask_target(w, h, image_size, patch_size) ==
    LET h_patches == TruncDiv(image_size, patch_size)
        w_patches == TruncDiv(w * image_size, h * patch_size)
    IN  <<h_patches * patch_size, w_patches * patch_size>>

\* line 52: TF.resize(mask_pil, target_size) takes (height, width)
resize_mask(w, h, image_size, patch_size) ==
    LET target_size == resize_mask_target(w, h, image_size, patch_size)
    IN  resize(target_size[2], target_size[1])

\* a helper's result is an exception, not a plane
Raises(result) == "raises" \in DOMAIN result

\* ------------------------------------------------------------------ inputs
\* Contents of a resized mask: the pixel sum of patch p (row-major, 1-based).
\* 255 * PATCH_SIZE^2 is a patch that is entirely foreground.
FullPatch == 255 * PATCH_SIZE * PATCH_SIZE

\* pixel sums around the thresholds 0, 0.01, 0.5, 0.99 and 1 of the soft label
EdgeSums == <<0, 1, 652, 653, FullPatch \div 2, 64627, 64628, FullPatch>>

MaskKinds == {"bg", "fg", "half", "edge"}

MaskSum(kind, p) ==
    CASE kind = "bg"   -> 0
      [] kind = "fg"   -> FullPatch
      [] kind = "half" -> FullPatch \div 2
      [] kind = "edge" -> EdgeSums[((p - 1) % Len(EdgeSums)) + 1]

\* A downloaded file. opens: Image.open identifies it (line 101), which gives
\* img.mode and img.size = (w, h) without decoding; loads: img.load() decodes
\* it (line 103); rgb identifies the colour content; mask the alpha content.
\* A file that does not open has no mode ("none"); a truncated file opens and
\* does not load.
Img(opens, loads, mode, w, h, rgb, mask) ==
    [opens |-> opens, loads |-> loads, mode |-> mode, w |-> w, h |-> h,
     rgb |-> rgb, mask |-> mask]

ImageKinds ==
    {Img(FALSE, FALSE, "none", 1, 48, 1, "bg")}
    \cup {Img(TRUE, FALSE, m, 1, 48, 1, "bg") : m \in {"RGBA", "L"}}
    \cup {Img(TRUE, TRUE, m, 1, 48, 3, "fg") : m \in {"RGB", "L"}}
    \cup {Img(TRUE, TRUE, "RGBA", 1, 49, 1, "fg")}
    \cup {Img(TRUE, TRUE, "RGBA", 1, 48, 1, k) : k \in MaskKinds}
    \cup {Img(TRUE, TRUE, "RGBA", 1, 24, 2, "bg")}
    \cup {Img(TRUE, TRUE, "RGBA", 2, 64, 2, "fg")}

RECURSIVE SeqsUpTo(_, _)
SeqsUpTo(S, n) ==
    IF n = 0 THEN {<<>>}
    ELSE LET shorter == SeqsUpTo(S, n - 1)
         IN  shorter \cup {Append(q, x) : q \in {r \in shorter : Len(r) = n - 1}, x \in S}

Batches == SeqsUpTo(ImageKinds, MaxImages)

\* ------------------------------------------------------- the op's pure parts
\* mutant of skip_image: only plain RGB images are skipped
skip_image_rgb_only(img) == img.mode = "RGB"

\* line 102: if img.mode != 'RGBA': continue
skip_image(img) == img.mode # "RGBA"

\* lines 97-98, 109: Conv2d(1, 1, P, stride=P, bias=False) with weights 1/P^2,
\* then squeeze().view(-1): one entry per patch, row-major; an entry is the
\* pixel sum of its patch (the label is the sum / FullPatch)
patch_quant_filter(mask, size) ==
    LET n == (size.height \div PATCH_SIZE) * (size.width \div PATCH_SIZE)
    IN  [p \in 1..n |-> MaskSum(mask, p)]

\* line 116-117: ort_sess.run(...)[0].squeeze(0): one embedding per patch of the
\* input plane, row-major; an embedding is identified by <<content, patch>>
embed(rgb, size) ==
    LET n == (size.height \div PATCH_SIZE) * (size.width \div PATCH_SIZE)
    IN  [p \in 1..n |-> <<rgb, p>>]

\* lines 121-122: np.concatenate(list, axis=0)
RECURSIVE concatenate(_)
concatenate(list) ==
    IF list = <<>> THEN <<>> ELSE Head(list) \o concatenate(Tail(list))

\* line 125: (ys < 0.01) | (ys > 0.99), on pixel sums
keep_label(s) == (100 * s < FullPatch) \/ (100 * s > 99 * FullPatch)

\* line 125: idx, the boolean index over the rows of ys
clean_idx(y) == [k \in 1..Len(y) |-> keep_label(y[k])]

\* lines 126-127: x[idx], the rows of x where idx is true, in order
take(x, idx) ==
    LET rows == [k \in 1..Len(idx) |-> <<idx[k], x[k]>>]
        kept == SelectSeq(rows, LAMBDA r : r[1])
    IN  [j \in 1..Len(kept) |-> kept[j][2]]

\* line 133: (ys_clean > 0).astype(int)
binarize(s) == IF s > 0 THEN 1 ELSE 0

\* ------------------------------------------------------- train_classifier_op
geomIdle == g_in = <<>> /\ g_img = <<>> /\ g_mask = <<>>
sensorIdle ==
    /\ db = <<>> /\ run_keys = {} /\ runs = <<>> /\ polls = 0
    /\ sensor_pc = "idle"
    /\ last_requests = <<>> /\ requested = <<>>

\* the state of a run before its first statement
pipeStart ==
    /\ status = "pending"
    /\ classifier_file = "none"
    /\ writes = <<>>
    /\ i = 0
    /\ xs = <<>> /\ ys = <<>>
    /\ xs_cat = <<>> /\ ys_cat = <<>>
    /\ xs_clean = <<>> /\ ys_clean = <<>>
    /\ fit_y = <<>>
    /\ fit_calls = 0
    /\ embed_calls = 0
    /\ clf = "none"
    /\ onx = "none"
    /\ err = "none"
    /\ raised = FALSE

pipeIdle == pc = "idle" /\ images = <<>> /\ pipeStart

Init ==
    /\ pc = "connect"
    /\ images \in Batches
    /\ pipeStart
    /\ geomIdle
    /\ sensorIdle

recordVars == <<status, classifier_file, writes>>
tableVars == <<xs, ys, xs_cat, ys_cat, xs_clean, ys_clean, fit_y, fit_calls,
               embed_calls, clf, onx>>
otherVars == <<images, geomVars, sensorVars>>

\* an exception raised inside the with block of line 75 (lines 76-169): the
\* exit of the block removes the temporary directory while e propagates; when
\* the removal raises, its OSError replaces e. Control then goes to line 171.
Throw(e) ==
    /\ pc' = "except"
    /\ \E removed \in BOOLEAN : err' = IF removed THEN e ELSE "OSError"

\* an exception raised outside the try block: the op raises to its caller
Escape(e) == pc' = "done" /\ err' = e /\ raised' = TRUE

\* lines 65-69: PocketBase(...), auth_with_password, get_one
Connect ==
    /\ pc = "connect"
    /\ \E ok \in BOOLEAN :
         IF ok THEN pc' = "mark" /\ UNCHANGED <<err, raised>>
         ELSE Escape("ClientResponseError")
    /\ UNCHANGED <<recordVars, tableVars, i, otherVars>>

\* line 72: update(record_id, {"status": "training"}), before the try
MarkTraining ==
    /\ pc = "mark"
    /\ \E ok \in BOOLEAN :
         IF ok
         THEN /\ status' = "training"
              /\ writes' = Append(writes, "training")
              /\ pc' = "download"
              /\ UNCHANGED <<err, raised>>
         ELSE /\ Escape("ClientResponseError")
              /\ UNCHANGED <<status, writes>>
    /\ UNCHANGED <<classifier_file, tableVars, i, otherVars>>

\* mutant of Download: the download loop placed before the try block
Download_outside_try ==
    /\ pc = "download"
    /\ \E ok \in BOOLEAN :
         IF ok THEN pc' = "session" /\ UNCHANGED <<err, raised>>
         ELSE Escape("ConnectionError")
    /\ UNCHANGED <<recordVars, tableVars, i, otherVars>>

\* lines 75-87: the temporary directory and the download loop
Download ==
    /\ pc = "download"
    /\ \E ok \in BOOLEAN :
         IF ok THEN pc' = "session" /\ UNCHANGED err
         ELSE Throw("ConnectionError")
    /\ UNCHANGED <<recordVars, tableVars, i, raised, otherVars>>

\* lines 91-98: the inference session, xs = [], ys = [], the patch filter
LoadSession ==
    /\ pc = "session"
    /\ \E ok \in BOOLEAN :
         IF ok
         THEN /\ pc' = "loop"
              /\ i' = 1
              /\ xs' = <<>> /\ ys' = <<>>
              /\ UNCHANGED err
         ELSE /\ Throw("OrtLoadError")
              /\ UNCHANGED <<i, xs, ys>>
    /\ UNCHANGED <<recordVars, xs_cat, ys_cat, xs_clean, ys_clean, fit_y,
                   fit_calls, embed_calls, clf, onx, raised, otherVars>>

\* lines 100-118: one iteration of the for loop, on images[i]
LoopImage ==
    /\ pc = "loop"
    /\ i <= Len(images)
    /\ LET img == images[i]
           mask_size == resize_mask(img.w, img.h, IMAGE_SIZE, PATCH_SIZE)
           img_size == preprocess_image(img.w, img.h, IMAGE_SIZE, PATCH_SIZE)
       IN
       IF ~img.opens
       THEN \* line 101: Image.open raises
            /\ Throw("UnidentifiedImageError")
            /\ UNCHANGED <<i, xs, ys, embed_calls>>
       ELSE IF skip_image(img)
       THEN \* line 102: continue, before the file is decoded
            /\ i' = i + 1
            /\ UNCHANGED <<pc, err, xs, ys, embed_calls>>
       ELSE IF ~img.loads
       THEN \* line 103: img.load() raises
            /\ Throw("OSError")
            /\ UNCHANGED <<i, xs, ys, embed_calls>>
       ELSE IF Raises(mask_size)
       THEN \* line 108: the resize to an empty target raises
            /\ Throw(mask_size.raises)
            /\ UNCHANGED <<i, xs, ys, embed_calls>>
       ELSE
            \* lines 108-110
            /\ ys' = Append(ys, patch_quant_filter(img.mask, mask_size))
            /\ IF Raises(img_size)
               THEN \* line 113: the resize to an empty target raises
                    /\ Throw(img_size.raises)
                    /\ UNCHANGED <<i, xs, embed_calls>>
               ELSE \* lines 116-118
                    /\ embed_calls' = embed_calls + 1
                    /\ \E ok \in BOOLEAN :
                         IF ok
                         THEN /\ xs' = Append(xs, embed(img.rgb, img_size))
                              /\ i' = i + 1
                              /\ UNCHANGED <<pc, err>>
                         ELSE /\ Throw("OrtRunError")
                              /\ UNCHANGED <<i, xs>>
    /\ UNCHANGED <<recordVars, xs_cat, ys_cat, xs_clean, ys_clean, fit_y,
                   fit_calls, clf, onx, raised, otherVars>>

\* lines 121-122: np.concatenate raises ValueError on an empty list
Concat ==
    /\ pc = "loop"
    /\ i > Len(images)
    /\ IF xs = <<>>
       THEN /\ Throw("ValueError")
            /\ UNCHANGED <<xs_cat, ys_cat>>
       ELSE /\ xs_cat' = concatenate(xs)
            /\ ys_cat' = concatenate(ys)
            /\ pc' = "filter"
            /\ UNCHANGED err
    /\ UNCHANGED <<recordVars, i, xs, ys, xs_clean, ys_clean, fit_y, fit_calls,
                   embed_calls, clf, onx, raised, otherVars>>

\* lines 125-127: the boolean index needs len(xs) = len(ys)
Filter ==
    /\ pc = "filter"
    /\ IF Len(xs_cat) # Len(ys_cat)
       THEN /\ Throw("IndexError")
            /\ UNCHANGED <<xs_clean, ys_clean>>
       ELSE /\ xs_clean' = take(xs_cat, clean_idx(ys_cat))
            /\ ys_clean' = take(ys_cat, clean_idx(ys_cat))
            /\ pc' = "fit"
            /\ UNCHANGED err
    /\ UNCHANGED <<recordVars, i, xs, ys, xs_cat, ys_cat, fit_y, fit_calls,
                   embed_calls, clf, onx, raised, otherVars>>

\* lines 132-133: LogisticRegression.fit raises ValueError on zero samples
\* and on fewer than two classes
Fit ==
    /\ pc = "fit"
    /\ LET y == [k \in 1..Len(ys_clean) |-> binarize(ys_clean[k])]
       IN  /\ fit_y' = y
           /\ fit_calls' = fit_calls + 1
           /\ IF Len(xs_clean) = 0 \/ Cardinality({y[k] : k \in 1..Len(y)}) < 2
              THEN Throw("ValueError") /\ UNCHANGED clf
              ELSE clf' = "fitted" /\ pc' = "export" /\ UNCHANGED err
    /\ UNCHANGED <<recordVars, i, xs, ys, xs_cat, ys_cat, xs_clean, ys_clean,
                   embed_calls, onx, raised, otherVars>>

\* lines 139-155: to_onnx and the write of classifier.onnx
Export ==
    /\ pc = "export"
    /\ \E ok \in BOOLEAN :
         IF ok THEN onx' = "bytes" /\ pc' = "upload" /\ UNCHANGED err
         ELSE Throw("ExportError") /\ UNCHANGED onx
    /\ UNCHANGED <<recordVars, i, xs, ys, xs_cat, ys_cat, xs_clean, ys_clean,
                   fit_y, fit_calls, embed_calls, clf, raised, otherVars>>

\* lines 160-168: one update sets status "ready" and attaches the file
Upload ==
    /\ pc = "upload"
    /\ \E ok \in BOOLEAN :
         IF ok
         THEN /\ status' = "ready"
              /\ classifier_file' = onx
              /\ writes' = Append(writes, "ready")
              /\ pc' = "finish"
              /\ UNCHANGED err
         ELSE /\ Throw("ClientResponseError")
              /\ UNCHANGED recordVars
    /\ UNCHANGED <<tableVars, i, raised, otherVars>>

\* line 169 and the exit of the with block of line 75, still inside the try:
\* the removal of the temporary directory can raise OSError
Finish ==
    /\ pc = "finish"
    /\ \E ok \in BOOLEAN :
         IF ok THEN pc' = "done" /\ UNCHANGED err
         ELSE Throw("OSError")
    /\ UNCHANGED <<recordVars, tableVars, i, raised, otherVars>>

\* lines 171-174: except Exception: update status "failed", raise e
Handler ==
    /\ pc = "except"
    /\ \E ok \in BOOLEAN :
         IF ok
         THEN /\ status' = "failed"
              /\ writes' = Append(writes, "failed")
              /\ UNCHANGED err
         ELSE \* line 173 raises: the op ends with that exception instead
              /\ err' = "ClientResponseError"
              /\ UNCHANGED <<status, writes>>
    /\ pc' = "done"
    /\ raised' = TRUE
    /\ UNCHANGED <<classifier_file, tableVars, i, otherVars>>

Next ==
    \/ Connect
    \/ MarkTraining
    \/ Download
    \/ LoadSession
    \/ LoopImage
    \/ Concat
    \/ Filter
    \/ Fit
    \/ Export
    \/ Upload
    \/ Finish
    \/ Handler

Spec == Init /\ [][Next]_vars

\* ------------------------------------------------ the geometry helpers alone
GeomInputs ==
    [w : 1..MaxDim, h : 1..MaxDim, S : 1..MaxTarget, P : 1..MaxStride]

InitGeom ==
    /\ pipeIdle
    /\ sensorIdle
    /\ g_in \in GeomInputs
    /\ g_img = <<>>
    /\ g_mask = <<>>

\* preprocess_image(img_pil, image_size, patch_size) on an image of g_in's
\* size: g_img becomes the resized plane, or the exception of the resize
ApplyPreprocess ==
    /\ g_in # <<>> /\ g_img = <<>>
    /\ g_img' = preprocess_image(g_in.w, g_in.h, g_in.S, g_in.P)
    /\ UNCHANGED <<g_in, g_mask, pipeVars, sensorVars>>

\* resize_mask(mask_pil, image_size, patch_size) on a mask of g_in's size:
\* g_mask becomes the resized plane, or the exception of the resize
ApplyResizeMask ==
    /\ g_in # <<>> /\ g_mask = <<>>
    /\ g_mask' = resize_mask(g_in.w, g_in.h, g_in.S, g_in.P)
    /\ UNCHANGED <<g_in, g_img, pipeVars, sensorVars>>

NextGeom == ApplyPreprocess \/ ApplyResizeMask

SpecGeom == InitGeom /\ [][NextGeom]_vars

\* ------------------------------------------------------- pocketbase_sensor
Records == 1..MaxRecords

\* lines 195-202: per_page of the get_list call
PER_PAGE == 10

InitSensor ==
    /\ pipeIdle
    /\ geomIdle
    /\ db \in [Records -> {"pending", "ready", "failed"}]
    /\ run_keys = {}
    /\ runs = <<>>
    /\ polls = 0
    /\ sensor_pc = "idle"
    /\ last_requests = <<>>
    /\ requested = [r \in Records |-> 0]

\* mutant of run_key: a key that differs from one tick to the next
run_key_per_tick(record_id, tick) == <<"train", record_id, tick>>

\* line 210: run_key = f"train_{record.id}"
run_key(record_id, tick) == <<"train", record_id>>

\* lines 195-202: the first page of the records with status = "pending",
\* sorted by creation (records are created in the order of their ids)
pending_page(d) ==
    LET ids == {r \in DOMAIN d : d[r] = "pending"}
        nth(j) == CHOOSE r \in ids : Cardinality({q \in ids : q <= r}) = j
        n == IF Cardinality(ids) < PER_PAGE THEN Cardinality(ids) ELSE PER_PAGE
    IN  [j \in 1..n |-> nth(j)]

\* lines 208-221: one RunRequest per record of the page
run_requests(page, tick) ==
    [j \in 1..Len(page) |->
        [run_key |-> run_key(page[j], tick),
         run_config |-> [record_id |-> page[j]]]]

\* the scheduler's handling of the yielded requests: a run is launched for a
\* request unless a run with its run_key was launched before
RECURSIVE launch(_, _, _)
launch(reqs, keys, rs) ==
    IF reqs = <<>> THEN <<keys, rs>>
    ELSE LET rq == Head(reqs)
         IN  IF rq.run_key \in keys
             THEN launch(Tail(reqs), keys, rs)
             ELSE launch(Tail(reqs), keys \cup {rq.run_key},
                         Append(rs, [run_key |-> rq.run_key,
                                     record_id |-> rq.run_config.record_id,
                                     at |-> "queued"]))

\* lines 185-226: one evaluation of the sensor function: auth, get_list (the
\* one read of the collection) and the yields; a connection error yields a
\* SkipReason and no request. The requests are handed to the scheduler.
SensorTick ==
    /\ sensor_pc = "idle"
    /\ polls < MaxPolls
    /\ polls' = polls + 1
    /\ sensor_pc' = "yielded"
    /\ \E ok \in BOOLEAN :
         IF ok
         THEN LET reqs == run_requests(pending_page(db), polls + 1)
              IN  /\ last_requests' = reqs
                  /\ requested' =
                       [r \in Records |->
                          requested[r]
                          + Cardinality({j \in 1..Len(reqs) :
                                           reqs[j].run_config.record_id = r})]
         ELSE /\ last_requests' = <<>>
              /\ UNCHANGED requested
    /\ UNCHANGED <<db, run_keys, runs, pipeVars, geomVars>>

\* line 184, @sensor(job=training_job): once the sensor function has returned,
\* the scheduler creates the runs of its requests, one per new run_key
SensorLaunch ==
    /\ sensor_pc = "yielded"
    /\ sensor_pc' = "idle"
    /\ LET out == launch(last_requests, run_keys, runs)
       IN  run_keys' = out[1] /\ runs' = out[2]
    /\ UNCHANGED <<db, polls, last_requests, requested, pipeVars, geomVars>>

\* lines 61-69 of a launched run: config, auth_with_password, get_one
RunConnect(k) ==
    /\ runs[k].at = "queued"
    /\ \E ok \in BOOLEAN :
         runs' = [runs EXCEPT ![k].at = IF ok THEN "mark" ELSE "ended"]
    /\ UNCHANGED <<db, run_keys, polls, sensor_pc, last_requests, requested,
                   pipeVars, geomVars>>

\* line 72 of a launched run: the record becomes "training"
RunMarkTraining(k) ==
    /\ runs[k].at = "mark"
    /\ \E ok \in BOOLEAN :
         IF ok
         THEN /\ db' = [db EXCEPT ![runs[k].record_id] = "training"]
              /\ runs' = [runs EXCEPT ![k].at = "try"]
         ELSE /\ runs' = [runs EXCEPT ![k].at = "ended"]
              /\ UNCHANGED db
    /\ UNCHANGED <<run_keys, polls, sensor_pc, last_requests, requested,
                   pipeVars, geomVars>>

\* lines 74-168 of a launched run: a step of the try block raises, or the
\* update of lines 160-168 makes the record "ready"
RunTry(k) ==
    /\ runs[k].at = "try"
    /\ \E ok \in BOOLEAN :
         IF ok
         THEN /\ db' = [db EXCEPT ![runs[k].record_id] = "ready"]
              /\ runs' = [runs EXCEPT ![k].at = "finish"]
         ELSE /\ runs' = [runs EXCEPT ![k].at = "except"]
              /\ UNCHANGED db
    /\ UNCHANGED <<run_keys, polls, sensor_pc, last_requests, requested,
                   pipeVars, geomVars>>

\* line 169 and the exit of the with block of line 75 of a launched run
RunCleanup(k) ==
    /\ runs[k].at = "finish"
    /\ \E ok \in BOOLEAN :
         runs' = [runs EXCEPT ![k].at = IF ok THEN "ended" ELSE "except"]
    /\ UNCHANGED <<db, run_keys, polls, sensor_pc, last_requests, requested,
                   pipeVars, geomVars>>

\* lines 171-174 of a launched run: the record becomes "failed", or keeps its
\* status when the handler's update raises
RunHandler(k) ==
    /\ runs[k].at = "except"
    /\ \E ok \in BOOLEAN :
         IF ok THEN db' = [db EXCEPT ![runs[k].record_id] = "failed"]
         ELSE UNCHANGED db
    /\ runs' = [runs EXCEPT ![k].at = "ended"]
    /\ UNCHANGED <<run_keys, polls, sensor_pc, last_requests, requested,
                   pipeVars, geomVars>>

NextSensor ==
    \/ SensorTick
    \/ SensorLaunch
    \/ \E k \in 1..Len(runs) : RunConnect(k)
    \/ \E k \in 1..Len(runs) : RunMarkTraining(k)
    \/ \E k \in 1..Len(runs) : RunTry(k)
    \/ \E k \in 1..Len(runs) : RunCleanup(k)
    \/ \E k \in 1..Len(runs) : RunHandler(k)

SpecSensor == InitSensor /\ [][NextSensor]_vars

\* =================================================================== claims
\* the grid of the claims: rows = S div P, cols = trunc((w * S) / (h * P))
GridRows == IMAGE_SIZE \div PATCH_SIZE
GridCols(img) == (img.w * IMAGE_SIZE) \div (img.h * PATCH_SIZE)

\* an image the loop accepts: readable, RGBA, and a grid of at least one patch
Accepted(img) ==
    img.opens /\ img.loads /\ img.mode = "RGBA" /\ GridCols(img) >= 1

RECURSIVE TotalLen(_)
TotalLen(list) ==
    IF list = <<>> THEN 0 ELSE Len(Head(list)) + TotalLen(Tail(list))

RECURSIVE PatchCount(_)
PatchCount(imgs) ==
    IF imgs = <<>> THEN 0
    ELSE GridRows * GridCols(Head(imgs)) + PatchCount(Tail(imgs))

Processed == SubSeq(images, 1, i - 1)

\* C1: at every boundary of the image loop the number of soft labels in ys
\* equals the number of embedding rows in xs, both equal the sum of rows*cols
\* over the images accepted so far, and for every accepted image resize_mask
\* and preprocess_image compute the same pixel grid.
C1_TablesAligned ==
    pc = "loop" =>
        LET acc == SelectSeq(Processed, Accepted)
        IN  /\ TotalLen(ys) = TotalLen(xs)
            /\ TotalLen(xs) = PatchCount(acc)
            /\ Len(xs) = Len(acc) /\ Len(ys) = Len(acc)
            /\ \A k \in 1..Len(acc) :
                 /\ resize_mask(acc[k].w, acc[k].h, IMAGE_SIZE, PATCH_SIZE)
                      = preprocess_image(acc[k].w, acc[k].h, IMAGE_SIZE, PATCH_SIZE)
                 /\ Len(xs[k]) = GridRows * GridCols(acc[k])
                 /\ Len(ys[k]) = GridRows * GridCols(acc[k])

\* two images of different grids have been accepted, one with a fractional
\* aspect quotient
C1_Witness ==
    /\ pc = "loop" /\ i = 3 /\ Len(xs) = 2
    /\ Len(xs[1]) # Len(xs[2])
    /\ \E k \in 1..2 : (images[k].w * IMAGE_SIZE) % (images[k].h * PATCH_SIZE) # 0

\* C2: every patch of the Clean Subset is passed to the fit as class 1 exactly
\* when its soft label is greater than 0.5, and as class 0 otherwise.
C2_BinarizedAtHalf ==
    fit_calls > 0 =>
        /\ Len(fit_y) = Len(ys_clean)
        /\ \A k \in 1..Len(ys_clean) :
             /\ (100 * ys_clean[k] < FullPatch) \/ (100 * ys_clean[k] > 99 * FullPatch)
             /\ fit_y[k] = (IF 2 * ys_clean[k] > FullPatch THEN 1 ELSE 0)

\* C3: when the loop ends with no accepted image, or with no label below 0.01
\* or above 0.99, the run fails with InsufficientTrainingData, never calls the
\* fit and never reaches export or "ready".
C3_InsufficientTrainingData ==
    LET labels == concatenate(ys)
        cleanEmpty == \A k \in 1..Len(labels) :
                        ~((100 * labels[k] < FullPatch) \/ (100 * labels[k] > 99 * FullPatch))
    IN  (pc \in {"except", "done"} /\ i > Len(images) /\ (xs = <<>> \/ cleanEmpty)) =>
            /\ pc = "except" => err = "InsufficientTrainingData"
            /\ fit_calls = 0
            /\ onx = "none"
            /\ status # "ready"

\* C4: a malformed image (one that cannot be opened or decoded, or of invalid
\* geometry) is skipped: the loop moves to the next image with both tables
\* unchanged and the run is not aborted.
C4_MalformedSkipped ==
    [][(pc = "loop" /\ i <= Len(images)
          /\ (~images[i].opens \/ ~images[i].loads)) =>
         (pc' = "loop" /\ i' = i + 1 /\ xs' = xs /\ ys' = ys)]_vars

\* the RGBA images of a batch, in order: the batch without the others
rgbaOf(imgs) == SelectSeq(imgs, LAMBDA m : m.mode = "RGBA")

\* the per-image feature arrays and label arrays of a batch of valid images
featsOf(imgs) ==
    [k \in 1..Len(imgs) |->
       embed(imgs[k].rgb,
             preprocess_image(imgs[k].w, imgs[k].h, IMAGE_SIZE, PATCH_SIZE))]
labelsOf(imgs) ==
    [k \in 1..Len(imgs) |->
       patch_quant_filter(imgs[k].mask,
             resize_mask(imgs[k].w, imgs[k].h, IMAGE_SIZE, PATCH_SIZE))]

\* the loop has run to its end and the tables have been concatenated
Concatenated == pc \in {"filter", "fit", "export", "upload", "finish"} \/ xs_cat # <<>>
Filtered == pc \in {"fit", "export", "upload", "finish"} \/ fit_calls > 0

\* every table of the run, and whether the fit succeeds, is what the RGBA images
\* of the batch alone give, in their order; the other images appear nowhere
C5_Tables ==
    LET done == rgbaOf(Processed)
        rgba == rgbaOf(images)
        feats == concatenate(featsOf(rgba))
        labels == concatenate(labelsOf(rgba))
        kept == SelectSeq(labels, keep_label)
        classes == [k \in 1..Len(kept) |-> binarize(kept[k])]
        trainable == {classes[k] : k \in 1..Len(classes)} = {0, 1}
    IN  /\ pc = "loop" =>
             /\ xs = featsOf(done)
             /\ ys = labelsOf(done)
             /\ embed_calls = Len(done)
             /\ err = "none"
        /\ Concatenated =>
             /\ xs_cat = feats
             /\ ys_cat = labels
             /\ embed_calls = Len(rgba)
        /\ Filtered =>
             /\ xs_clean = take(feats, clean_idx(labels))
             /\ ys_clean = kept
        /\ fit_calls > 0 =>
             /\ fit_calls = 1
             /\ fit_y = classes
             /\ (clf = "fitted") <=> trainable
        /\ (pc \in {"except", "done"} /\ i > Len(images) /\ ~Concatenated) =>
             rgba = <<>>
        /\ status = "ready" =>
             /\ trainable
             /\ classifier_file = "bytes"

\* one iteration of the loop on a file that opens with a mode other than RGBA
C5_SkipStep ==
    (/\ pc = "loop"
     /\ i <= Len(images)
     /\ images[i].opens
     /\ images[i].mode # "RGBA") =>
        /\ pc' = "loop"
        /\ i' = i + 1
        /\ err' = "none"
        /\ UNCHANGED <<xs, ys, embed_calls, raised, recordVars>>

\* C5: an iteration on a non-RGBA image (whether or not the file would decode)
\* goes on to the next image, raises nothing, calls no feature extractor and
\* leaves both tables as they are; and through the whole run the tables, the
\* filtered tables, the classes fitted and the success of the fit are those of
\* the RGBA images of the batch alone, in order, so a batch and the batch
\* without its non-RGBA images end the same way.
C5_NonRGBASkipped == []C5_Tables /\ [][C5_SkipStep]_vars

\* a run over an RGBA image, a truncated non-RGBA file and a different RGBA
\* image, in this order, has ended with the record ready and nothing raised
C5_Witness ==
    /\ pc = "done" /\ status = "ready" /\ ~raised
    /\ Len(images) = 3
    /\ images[1].mode = "RGBA" /\ images[3].mode = "RGBA"
    /\ images[1] # images[3]
    /\ images[2].opens /\ ~images[2].loads /\ images[2].mode = "L"

Terminal == {"ready", "failed"}

\* C7: the status updates of one run follow pending -> training -> ready|failed:
\* the first one is "training", at most one is terminal ("failed" never follows
\* "ready" nor "ready" "failed"), and nothing is written after a terminal one.
C7_StatusOrder ==
    /\ Len(writes) >= 1 => writes[1] = "training"
    /\ \A k \in 1..Len(writes) :
         /\ writes[k] \in Terminal => k = Len(writes)
         /\ writes[k] = "training" => k = 1
    /\ Cardinality({k \in 1..Len(writes) : writes[k] \in Terminal}) <= 1

\* a run that marked its record "training" has ended by raising
FailedAfterTraining == pc = "done" /\ writes # <<>> /\ raised

\* C8 (as stated): a run that fails after marking its record "training" ends
\* with the record "failed" and an error raised; no ended run leaves its record
\* in status "training".
C8_AlwaysMarkedFailed ==
    /\ FailedAfterTraining => status = "failed" /\ err # "none"
    /\ pc = "done" => status # "training"

\* C8 (amended): a run that fails after marking its record "training" always
\* raises one error to its caller, and ends with the record "failed" unless the
\* status update of the except handler itself raised; then the record keeps
\* the status it had, "failed" was never written and the error raised is that
\* update's. A run that ends without raising leaves the record "ready".
C8_FailedUnlessUpdateRaises ==
    /\ FailedAfterTraining =>
         /\ err # "none"
         /\ \/ status = "failed" /\ writes[Len(writes)] = "failed"
            \/ /\ err = "ClientResponseError"
               /\ status \in {"training", "ready"}
               /\ status = writes[Len(writes)]
    /\ (pc = "done" /\ status = "training") =>
         raised /\ err = "ClientResponseError"
    /\ (pc = "done" /\ ~raised) => status = "ready" /\ err = "none"

\* a run failed in the fit and its record was marked "failed"
C8_Witness ==
    /\ pc = "done" /\ status = "failed" /\ raised
    /\ err = "ValueError" /\ fit_calls = 1

\* C9: classifier bytes are attached to the record only by the update that sets
\* "ready", after every image was processed and the fit and the export are
\* complete; a record marked "failed" holds no classifier file.
C9_NoPartialArtifact ==
    /\ classifier_file # "none" =>
         /\ "ready" \in {writes[k] : k \in 1..Len(writes)}
         /\ i > Len(images)
         /\ fit_calls = 1 /\ clf = "fitted"
         /\ onx = "bytes" /\ classifier_file = onx
    /\ status = "ready" => classifier_file = "bytes"
    /\ status = "failed" => classifier_file = "none"

\* the grid of the claim for the drawn input
G_rows == g_in.S \div g_in.P
G_cols == (g_in.w * g_in.S) \div (g_in.h * g_in.P)

GridOf(size) ==
    /\ size.height = G_rows * g_in.P
    /\ size.width = G_cols * g_in.P
    /\ size.height % g_in.P = 0 /\ size.width % g_in.P = 0

Dist(a, b) == IF a >= b THEN a - b ELSE b - a

\* the helper returned a resized plane
IsPlane(result) == result # <<>> /\ ~Raises(result)

\* C6 (as stated): for all w, h >= 1, all S and all P >= 1 the resized height is
\* rows*P, the resized width is cols*P, and |cols*h - rows*w| < h.
C6_AspectWithinOnePatch ==
    /\ IsPlane(g_img) => GridOf(g_img)
    /\ IsPlane(g_mask) => GridOf(g_mask)
    /\ (IsPlane(g_img) \/ IsPlane(g_mask)) =>
         Dist(G_cols * g_in.h, G_rows * g_in.w) < g_in.h

\* C6 (amended): for all w, h, S, P >= 1 a helper returns a resized plane
\* exactly when rows >= 1 and cols >= 1 (otherwise its resize raises); the
\* plane's height is rows*P and its width cols*P; cols is within one patch of
\* (S/P)*(w/h), that is 0 <= w*S - cols*h*P < h*P; and |cols*h - rows*w| < h
\* whenever S is a multiple of P.
C6_AspectWithinOnePatchOfTarget ==
    /\ \A r \in {g_img, g_mask} :
         r # <<>> =>
            /\ IsPlane(r) <=> (G_rows >= 1 /\ G_cols >= 1)
            /\ IsPlane(r) => GridOf(r)
    /\ (IsPlane(g_img) \/ IsPlane(g_mask)) =>
         /\ 0 <= g_in.w * g_in.S - G_cols * g_in.h * g_in.P
         /\ g_in.w * g_in.S - G_cols * g_in.h * g_in.P < g_in.h * g_in.P
         /\ g_in.S % g_in.P = 0 =>
              Dist(G_cols * g_in.h, G_rows * g_in.w) < g_in.h

\* both helpers returned a plane for a non-square image whose aspect quotient
\* is truncated, with S a multiple of P and more than one row
C6_Witness ==
    /\ IsPlane(g_img) /\ IsPlane(g_mask)
    /\ g_in.S % g_in.P = 0 /\ G_rows >= 2
    /\ (g_in.w * g_in.S) % (g_in.h * g_in.P) # 0
    /\ G_cols >= 1 /\ G_cols # G_rows

RunsOf(rs, r) == {k \in 1..Len(rs) : rs[k].record_id = r}
Executing(rs, r) ==
    {k \in RunsOf(rs, r) : rs[k].at \in {"mark", "try", "finish", "except"}}

\* C10: every poll requests a run only for records whose status is "pending",
\* each request carries the record id as its only config input and the run key
\* train_<record id>; at most one run is ever started for a record, however
\* many polls find it "pending", and no two runs of a record execute at once.
C10_OncePerRecord ==
    [][/\ polls' # polls =>
            \A j \in 1..Len(last_requests') :
               LET rq == last_requests'[j]
               IN  /\ DOMAIN rq.run_config = {"record_id"}
                   /\ rq.run_config.record_id \in Records
                   /\ db[rq.run_config.record_id] = "pending"
                   /\ rq.run_key = <<"train", rq.run_config.record_id>>
       /\ \A r \in Records :
            /\ Cardinality(RunsOf(runs', r)) <= 1
            /\ Cardinality(Executing(runs', r)) <= 1
            /\ (requested'[r] >= 1 /\ sensor_pc' = "idle") =>
                 Cardinality(RunsOf(runs', r)) = 1
      ]_vars

\* a record was requested by two polls while still "pending" and has one run,
\* which has not yet written "training"
C10_Witness ==
    \E r \in Records :
        /\ requested[r] >= 2
        /\ sensor_pc = "idle"
        /\ db[r] = "pending"
        /\ Cardinality(RunsOf(runs, r)) = 1
        /\ \E k \in RunsOf(runs, r) : runs[k].at = "mark"

====
